---------------------------- MODULE Spec2Model ----------------------------
(***************************************************************************)
(* PyClassJVM attribute decoder (src/PyClassJVM/attributes.py).            *)
(*                                                                         *)
(* Attribute.parse reads a 6-byte header from a byte cursor, resolves the  *)
(* attribute name through the constant pool, reads the body, and           *)
(* dispatches on the name to the _parse classmethod of one of the          *)
(* Attribute subclasses.  Attribute_Code._parse calls Attribute.parse      *)
(* again for its nested attributes.  The decoder is modelled as a stack    *)
(* machine: one frame per active _parse call, one step per straight-line   *)
(* block or loop iteration of the source.                                  *)
(*                                                                         *)
(* Bytes are naturals in 0..255; a bytes object is a sequence of them.     *)
(* A cursor (io.BytesIO) is [data, pos], pos counting the bytes consumed.  *)
(***************************************************************************)
EXTENDS Integers, Sequences, FiniteSets, TLC

VARIABLES
    constant_pool,  \* the constant_pool argument: a Python list of entries
    fp,             \* the caller's cursor handed to the outermost Attribute.parse
    stack,          \* active _parse calls, innermost last
    result,         \* outcome of the outermost Attribute.parse
    calls           \* history: one record per Attribute.parse call, in call order

vars == <<constant_pool, fp, stack, result, calls>>

----------------------------------------------------------------------------
(* Bounds of the input space.                                              *)

\* Longest constant pool tried.
MaxPool == 19
\* Longest free-form body, in 2-byte words.
MaxWords == 4
\* Largest number of entries actually present in a generated table body.
MaxEntries == 2
\* Largest number of nested attributes actually present in a generated Code body.
MaxNested == 2

----------------------------------------------------------------------------
(* Python and struct primitives.                                           *)

Min(a, b) == IF a <= b THEN a ELSE b

Sum(s) ==
    LET f[i \in 0..Len(s)] == IF i = 0 THEN 0 ELSE f[i - 1] + s[i]
    IN  f[Len(s)]

\* int.from_bytes(b, "big")
BigEndian(b) ==
    LET f[i \in 0..Len(b)] == IF i = 0 THEN 0 ELSE f[i - 1] * 256 + b[i]
    IN  f[Len(b)]

\* The fields of b, one after the other, each of its size.
Fields(sizes, b) ==
    [i \in 1..Len(sizes) |->
        BigEndian(SubSeq(b, Sum(SubSeq(sizes, 1, i - 1)) + 1,
                            Sum(SubSeq(sizes, 1, i))))]

\* struct.unpack(">...", b) for a format of unsigned big-endian fields of the
\* given byte sizes (H = 2, I = 4): struct.error unless b has exactly the
\* format's size.
Unpack(sizes, b) ==
    IF Len(b) = Sum(sizes)
    THEN [ok |-> TRUE, vals |-> Fields(sizes, b)]
    ELSE [ok |-> FALSE, vals |-> <<>>]

\* A read that leaves the position where it was.
ReadNoAdvance(c, n) ==
    [bytes |-> SubSeq(c.data, c.pos + 1, Min(c.pos + n, Len(c.data))),
     fp |-> c]

\* io.BytesIO.read(n): the next n bytes, or as many as are left; never an error.
Read(c, n) ==
    [bytes |-> SubSeq(c.data, c.pos + 1, Min(c.pos + n, Len(c.data))),
     fp |-> [c EXCEPT !.pos = Min(c.pos + n, Len(c.data))]]

\* io.BytesIO.read(): everything that is left.
ReadAll(c) == Read(c, Len(c.data) - c.pos)

\* io.BytesIO(info)
BytesIO(info) == [data |-> info, pos |-> 0]

\* list.__getitem__(i) for an int i: 0-based, a negative i counts from the
\* end, IndexError outside -len..len-1.
None == [kind |-> "None", value |-> ""]

GetItem(list, i) ==
    IF 0 <= i /\ i < Len(list) THEN [ok |-> TRUE, val |-> list[i + 1]]
    ELSE IF -Len(list) <= i /\ i < 0
         THEN [ok |-> TRUE, val |-> list[Len(list) + i + 1]]
         ELSE [ok |-> FALSE, val |-> None]

----------------------------------------------------------------------------
(* Classes.                                                                *)

\* Attribute.__subclasses__(), in definition order.
Subclasses ==
    <<"UnknownAttribute", "Attribute_ConstantValue", "Attribute_Code",
      "Attribute_Exceptions", "Attribute_InnerClasses",
      "Attribute_EnclosingMethod", "Attribute_Synthetic",
      "Attribute_Signature", "Attribute_SourceFile",
      "Attribute_SourceDebugExtension", "Attribute_LineNumberTable",
      "Attribute_LocalVariableTable", "Attribute_LocalVariableTypeTable",
      "Attribute_Deprecated", "Attribute_BootstrapMethods",
      "Attribute_ModulePackages", "Attribute_ModuleMainClass",
      "Attribute_NestHost">>

\* f"Attribute_{name.value}"
ClassName(name) == "Attribute_" \o name.value

\* The subclass the loop of Attribute.parse returns through, if any.
Dispatch(name) ==
    IF \E i \in 1..Len(Subclasses) : Subclasses[i] = ClassName(name)
    THEN [found |-> TRUE, cls |-> ClassName(name)]
    ELSE [found |-> FALSE, cls |-> ""]

\* UnknownAttribute(name, info)
UnknownAttribute(name, info) ==
    [cls |-> "UnknownAttribute", name |-> name, info |-> info]

\* The locals of one _parse call.  fp is the call's own io.BytesIO(info);
\* n and m are the iterations a for loop has left; call is the index in
\* calls of the Attribute.parse call that made this one.
Frame(cls, name, info, call) ==
    [cls |-> cls, name |-> name, fp |-> BytesIO(info), pc |-> "start",
     call |-> call, n |-> 0, m |-> 0, table |-> <<>>, args |-> <<>>,
     ref |-> None, max_stack |-> 0, max_locals |-> 0, code |-> <<>>,
     exception_table |-> <<>>]

top == stack[Len(stack)]

Running(cls, pc) ==
    /\ stack # <<>>
    /\ top.cls = cls
    /\ top.pc = pc

\* An exception leaves every active call: nothing in the decoder catches it.
Raise(exc) ==
    /\ stack' = <<>>
    /\ result' = [status |-> "raised", exc |-> exc, value |-> None]

\* ReturnTo with the value not appended to the caller's list.
ReturnToNoAppend(rest, v) ==
    IF rest = <<>>
    THEN /\ stack' = <<>>
         /\ result' = [status |-> "returned", exc |-> "", value |-> v]
    ELSE /\ stack' = [rest EXCEPT ![Len(rest)] = [@ EXCEPT !.n = @ - 1]]
         /\ UNCHANGED result

\* A value returned by Attribute.parse to the callers in `rest`: the
\* outermost caller, or line 74 of the Attribute_Code._parse below it.
ReturnTo(rest, v) ==
    IF rest = <<>>
    THEN /\ stack' = <<>>
         /\ result' = [status |-> "returned", exc |-> "", value |-> v]
    ELSE /\ stack' = [rest EXCEPT ![Len(rest)] =
                        [@ EXCEPT !.table = Append(@, v), !.n = @ - 1]]
         /\ UNCHANGED result

\* return cls(...) from the innermost _parse.
Return(v) == ReturnTo(SubSeq(stack, 1, Len(stack) - 1), v)

\* The innermost _parse goes on with its locals changed.
Goto(f) ==
    /\ stack' = [stack EXCEPT ![Len(stack)] = f]
    /\ UNCHANGED result


\* struct.unpack(fmt, fp.read(size)) on the innermost call's cursor.
Take(sizes) ==
    LET r == Read(top.fp, Sum(sizes))
    IN  [u |-> Unpack(sizes, r.bytes), fp |-> r.fp]

----------------------------------------------------------------------------
(* Attribute.parse                                                         *)

\* ReadInfo as fp.read(), without the length.
ReadInfoToEnd(c, attribute_length) == ReadAll(c)

\* info = fp.read(attribute_length)
ReadInfo(c, attribute_length) == Read(c, attribute_length)

\* Attribute.parse is called by the outermost caller, once, or by line 74 of
\* an Attribute_Code._parse that has nested attributes left to decode.
CanCall ==
    \/ stack = <<>> /\ result.status = "none" /\ calls = <<>>
    \/ Running("Attribute_Code", "attributes") /\ top.n > 0

Attribute_parse ==
    /\ CanCall
    /\ \E c \in {IF stack = <<>> THEN fp ELSE top.fp} :
       \E r1 \in {Read(c, 6)} :
       \E u \in {Unpack(<<2, 4>>, r1.bytes)} :
       \E g \in {IF u.ok THEN GetItem(constant_pool, u.vals[1] - 1)
                       ELSE [ok |-> FALSE, val |-> None]} :
       \E r2 \in {IF u.ok /\ g.ok THEN ReadInfo(r1.fp, u.vals[2])
                        ELSE [bytes |-> <<>>, fp |-> r1.fp]} :
       \E d \in {IF u.ok /\ g.ok THEN Dispatch(g.val)
                       ELSE [found |-> FALSE, cls |-> ""]} :
       LET name_index == u.vals[1]
           attribute_length == u.vals[2]
           name == g.val
           info == r2.bytes
           after == IF ~u.ok \/ ~g.ok THEN r1.fp ELSE r2.fp
           entry == [depth |-> Len(stack),
                     before |-> c.pos,
                     header |-> u.ok,
                     name_index |-> IF u.ok THEN name_index ELSE 0,
                     length |-> IF u.ok THEN attribute_length ELSE 0,
                     avail |-> Len(c.data) - r1.fp.pos,
                     resolved |-> u.ok /\ g.ok,
                     name |-> IF u.ok /\ g.ok THEN name ELSE None,
                     after |-> after.pos]
           callers == IF stack = <<>> THEN <<>>
                      ELSE [stack EXCEPT ![Len(stack)] = [@ EXCEPT !.fp = after]]
       IN  /\ calls' = Append(calls, entry)
           /\ fp' = IF stack = <<>> THEN after ELSE fp
           /\ IF ~u.ok THEN Raise("struct.error")
              ELSE IF ~g.ok THEN Raise("IndexError")
              ELSE IF d.found
                   THEN /\ stack' = Append(callers,
                                       Frame(d.cls, name, info, Len(calls) + 1))
                        /\ UNCHANGED result
                   ELSE ReturnTo(callers, UnknownAttribute(name, info))
    /\ UNCHANGED constant_pool

----------------------------------------------------------------------------
(* The _parse classmethods without loops.                                  *)

\* ResolveOne without the "- 1" of constant_pool[index - 1].
ResolveOneNoSubtract ==
    LET t == Take(<<2>>)
        g == GetItem(constant_pool, t.u.vals[1])
    IN  IF ~t.u.ok THEN [ok |-> FALSE, exc |-> "struct.error", val |-> None]
        ELSE IF ~g.ok THEN [ok |-> FALSE, exc |-> "IndexError", val |-> None]
        ELSE [ok |-> TRUE, exc |-> "", val |-> g.val]

\* One 2-byte constant pool index, resolved: the body of the _parse of
\* ConstantValue, Signature, SourceFile, ModuleMainClass and NestHost.
ResolveOne ==
    LET t == Take(<<2>>)
        g == GetItem(constant_pool, t.u.vals[1] - 1)
    IN  IF ~t.u.ok THEN [ok |-> FALSE, exc |-> "struct.error", val |-> None]
        ELSE IF ~g.ok THEN [ok |-> FALSE, exc |-> "IndexError", val |-> None]
        ELSE [ok |-> TRUE, exc |-> "", val |-> g.val]

Attribute_ConstantValue_parse ==
    /\ Running("Attribute_ConstantValue", "start")
    /\ \E r \in {ResolveOne} :
           IF ~r.ok THEN Raise(r.exc)
           ELSE Return([cls |-> top.cls, name |-> top.name,
                        constant_value |-> r.val])
    /\ UNCHANGED <<constant_pool, fp, calls>>

Attribute_Signature_parse ==
    /\ Running("Attribute_Signature", "start")
    /\ \E r \in {ResolveOne} :
           IF ~r.ok THEN Raise(r.exc)
           ELSE Return([cls |-> top.cls, name |-> top.name, signature |-> r.val])
    /\ UNCHANGED <<constant_pool, fp, calls>>

Attribute_SourceFile_parse ==
    /\ Running("Attribute_SourceFile", "start")
    /\ \E r \in {ResolveOne} :
           IF ~r.ok THEN Raise(r.exc)
           ELSE Return([cls |-> top.cls, name |-> top.name, sourcefile |-> r.val])
    /\ UNCHANGED <<constant_pool, fp, calls>>

Attribute_ModuleMainClass_parse ==
    /\ Running("Attribute_ModuleMainClass", "start")
    /\ \E r \in {ResolveOne} :
           IF ~r.ok THEN Raise(r.exc)
           ELSE Return([cls |-> top.cls, name |-> top.name, main_class |-> r.val])
    /\ UNCHANGED <<constant_pool, fp, calls>>

Attribute_NestHost_parse ==
    /\ Running("Attribute_NestHost", "start")
    /\ \E r \in {ResolveOne} :
           IF ~r.ok THEN Raise(r.exc)
           ELSE Return([cls |-> top.cls, name |-> top.name, host_class |-> r.val])
    /\ UNCHANGED <<constant_pool, fp, calls>>

Attribute_EnclosingMethod_parse ==
    /\ Running("Attribute_EnclosingMethod", "start")
    /\ \E t \in {Take(<<2, 2>>)} :
       LET class_ == GetItem(constant_pool, t.u.vals[1] - 1)
           method == GetItem(constant_pool, t.u.vals[2] - 1)
       IN  IF ~t.u.ok THEN Raise("struct.error")
           ELSE IF ~class_.ok \/ ~method.ok THEN Raise("IndexError")
           ELSE Return([cls |-> top.cls, name |-> top.name,
                        class_ |-> class_.val, method |-> method.val])
    /\ UNCHANGED <<constant_pool, fp, calls>>

Attribute_Synthetic_parse ==
    /\ Running("Attribute_Synthetic", "start")
    /\ Return([cls |-> top.cls, name |-> top.name])
    /\ UNCHANGED <<constant_pool, fp, calls>>

Attribute_Deprecated_parse ==
    /\ Running("Attribute_Deprecated", "start")
    /\ Return([cls |-> top.cls, name |-> top.name])
    /\ UNCHANGED <<constant_pool, fp, calls>>

Attribute_SourceDebugExtension_parse ==
    /\ Running("Attribute_SourceDebugExtension", "start")
    /\ Return([cls |-> top.cls, name |-> top.name,
               debug_extension |-> ReadAll(top.fp).bytes])
    /\ UNCHANGED <<constant_pool, fp, calls>>

----------------------------------------------------------------------------
(* Record types (attribute_helpers.py) and the flag set.                   *)

LineNumber(v) == [start_pc |-> v[1], line_number |-> v[2]]

LocalVariable(v) ==
    [start_pc |-> v[1], line_number |-> v[2], name_index |-> v[3],
     descriptor_index |-> v[4], index |-> v[5]]

LocalVariableType(v) ==
    [start_pc |-> v[1], line_number |-> v[2], name_index |-> v[3],
     signature_index |-> v[4], index |-> v[5]]

InnerClass(inner_class_info, outer_class_info, inner_name, flags) ==
    [inner_class_info |-> inner_class_info,
     outer_class_info |-> outer_class_info,
     inner_name |-> inner_name,
     inner_class_access_flags |-> flags]

Bits(x, i) == {i + k : k \in {j \in 0..15 : (x \div 2^j) % 2 = 1}}

\* flags.InnerClassAccessFlags(x): the set of the bits of x that are set.
InnerClassAccessFlags(x) == Bits(x, 0)

----------------------------------------------------------------------------
(* The _parse classmethods with one count-driven loop.  "start" reads the  *)
(* 2-byte count, "loop" is one pass of the for statement, or the return    *)
(* once range(count) is used up.                                           *)

\* count = struct.unpack(">H", fp.read(2))[0], then the loop begins.
ReadCount ==
    \E t \in {Take(<<2>>)} :
        IF ~t.u.ok THEN Raise("struct.error")
        ELSE Goto([top EXCEPT !.fp = t.fp, !.n = t.u.vals[1], !.pc = "loop"])

\* AppendEntry putting the new element first.
AppendFirst(t, v) ==
    Goto([top EXCEPT !.fp = t.fp, !.n = @ - 1, !.table = <<v>> \o @])

\* One pass of a loop appending `v` after the read `t`.
AppendEntry(t, v) ==
    Goto([top EXCEPT !.fp = t.fp, !.n = @ - 1, !.table = Append(@, v)])

Attribute_Exceptions_parse ==
    /\ \/ Running("Attribute_Exceptions", "start") /\ ReadCount
       \/ /\ Running("Attribute_Exceptions", "loop")
          /\ top.n > 0
          /\ \E t \in {Take(<<2>>)} :
                 IF ~t.u.ok THEN Raise("struct.error")
                 ELSE AppendEntry(t, t.u.vals[1])
       \/ /\ Running("Attribute_Exceptions", "loop")
          /\ top.n = 0
          /\ Return([cls |-> top.cls, name |-> top.name,
                     exception_index_table |-> top.table])
    /\ UNCHANGED <<constant_pool, fp, calls>>

Attribute_InnerClasses_parse ==
    /\ \/ Running("Attribute_InnerClasses", "start") /\ ReadCount
       \/ /\ Running("Attribute_InnerClasses", "loop")
          /\ top.n > 0
          /\ \E t \in {Take(<<2, 2, 2, 2>>)} :
             LET inner_class_info == GetItem(constant_pool, t.u.vals[1] - 1)
                 outer_class_info == GetItem(constant_pool, t.u.vals[2] - 1)
                 inner_name == GetItem(constant_pool, t.u.vals[3] - 1)
             IN  IF ~t.u.ok THEN Raise("struct.error")
                 ELSE IF ~inner_class_info.ok \/ ~outer_class_info.ok
                            \/ ~inner_name.ok
                      THEN Raise("IndexError")
                 ELSE AppendEntry(t,
                          InnerClass(inner_class_info.val, outer_class_info.val,
                                     inner_name.val,
                                     InnerClassAccessFlags(t.u.vals[4])))
       \/ /\ Running("Attribute_InnerClasses", "loop")
          /\ top.n = 0
          /\ Return([cls |-> top.cls, name |-> top.name,
                     inner_classes |-> top.table])
    /\ UNCHANGED <<constant_pool, fp, calls>>

Attribute_LineNumberTable_parse ==
    /\ \/ Running("Attribute_LineNumberTable", "start") /\ ReadCount
       \/ /\ Running("Attribute_LineNumberTable", "loop")
          /\ top.n > 0
          /\ \E t \in {Take(<<2, 2>>)} :
                 IF ~t.u.ok THEN Raise("struct.error")
                 ELSE AppendEntry(t, LineNumber(t.u.vals))
       \/ /\ Running("Attribute_LineNumberTable", "loop")
          /\ top.n = 0
          /\ Return([cls |-> top.cls, name |-> top.name,
                     line_number_table |-> top.table])
    /\ UNCHANGED <<constant_pool, fp, calls>>

Attribute_LocalVariableTable_parse ==
    /\ \/ Running("Attribute_LocalVariableTable", "start") /\ ReadCount
       \/ /\ Running("Attribute_LocalVariableTable", "loop")
          /\ top.n > 0
          /\ \E t \in {Take(<<2, 2, 2, 2, 2>>)} :
                 IF ~t.u.ok THEN Raise("struct.error")
                 ELSE AppendEntry(t, LocalVariable(t.u.vals))
       \/ /\ Running("Attribute_LocalVariableTable", "loop")
          /\ top.n = 0
          /\ Return([cls |-> top.cls, name |-> top.name,
                     local_variable_table |-> top.table])
    /\ UNCHANGED <<constant_pool, fp, calls>>

Attribute_LocalVariableTypeTable_parse ==
    /\ \/ Running("Attribute_LocalVariableTypeTable", "start") /\ ReadCount
       \/ /\ Running("Attribute_LocalVariableTypeTable", "loop")
          /\ top.n > 0
          /\ \E t \in {Take(<<2, 2, 2, 2, 2>>)} :
                 IF ~t.u.ok THEN Raise("struct.error")
                 ELSE AppendEntry(t, LocalVariableType(t.u.vals))
       \/ /\ Running("Attribute_LocalVariableTypeTable", "loop")
          /\ top.n = 0
          /\ Return([cls |-> top.cls, name |-> top.name,
                     local_variable_type_table |-> top.table])
    /\ UNCHANGED <<constant_pool, fp, calls>>

Attribute_ModulePackages_parse ==
    /\ \/ Running("Attribute_ModulePackages", "start") /\ ReadCount
       \/ /\ Running("Attribute_ModulePackages", "loop")
          /\ top.n > 0
          /\ \E t \in {Take(<<2>>)} :
             LET g == GetItem(constant_pool, t.u.vals[1] - 1)
             IN  IF ~t.u.ok THEN Raise("struct.error")
                 ELSE IF ~g.ok THEN Raise("IndexError")
                 ELSE AppendEntry(t, g.val)
       \/ /\ Running("Attribute_ModulePackages", "loop")
          /\ top.n = 0
          /\ Return([cls |-> top.cls, name |-> top.name,
                     package_index_table |-> top.table])
    /\ UNCHANGED <<constant_pool, fp, calls>>

----------------------------------------------------------------------------
(* Attribute_BootstrapMethods._parse: a loop in a loop.  "method" is one   *)
(* pass of the outer loop up to the inner one, "argument" one pass of the  *)
(* inner loop, or the append that ends the outer pass.                     *)

Attribute_BootstrapMethods_parse ==
    /\ \/ /\ Running("Attribute_BootstrapMethods", "start")
          /\ \E t \in {Take(<<2>>)} :
                 IF ~t.u.ok THEN Raise("struct.error")
                 ELSE Goto([top EXCEPT !.fp = t.fp, !.n = t.u.vals[1],
                                       !.pc = "method"])
       \/ /\ Running("Attribute_BootstrapMethods", "method")
          /\ top.n > 0
          /\ \E t \in {Take(<<2, 2>>)} :
                 IF ~t.u.ok THEN Raise("struct.error")
                 ELSE Goto([top EXCEPT !.fp = t.fp, !.ref = t.u.vals[1],
                                       !.m = t.u.vals[2], !.args = <<>>,
                                       !.pc = "argument"])
       \/ /\ Running("Attribute_BootstrapMethods", "argument")
          /\ top.m > 0
          /\ \E t \in {Take(<<2>>)} :
             LET g == GetItem(constant_pool, t.u.vals[1] - 1)
             IN  IF ~t.u.ok THEN Raise("struct.error")
                 ELSE IF ~g.ok THEN Raise("IndexError")
                 ELSE Goto([top EXCEPT !.fp = t.fp, !.m = @ - 1,
                                       !.args = Append(@, g.val)])
       \/ /\ Running("Attribute_BootstrapMethods", "argument")
          /\ top.m = 0
          /\ \E g \in {GetItem(constant_pool, top.ref - 1)} :
                 IF ~g.ok THEN Raise("IndexError")
                 ELSE Goto([top EXCEPT !.n = @ - 1, !.pc = "method",
                                       !.table = Append(@, <<g.val, top.args>>)])
       \/ /\ Running("Attribute_BootstrapMethods", "method")
          /\ top.n = 0
          /\ Return([cls |-> top.cls, name |-> top.name,
                     bootstrap_methods |-> top.table])
    /\ UNCHANGED <<constant_pool, fp, calls>>

----------------------------------------------------------------------------
(* Attribute_Code._parse.  "start" is lines 61-64, "exception_table" one   *)
(* pass of the first loop or, after it, line 70; "attributes" is the       *)
(* second loop, whose passes are Attribute_parse steps, and the return.    *)

Attribute_Code_parse ==
    /\ \/ /\ Running("Attribute_Code", "start")
          /\ \E r1 \in {Read(top.fp, 8)} :
             \E u1 \in {Unpack(<<2, 2, 4>>, r1.bytes)} :
             IF ~u1.ok THEN Raise("struct.error")
             ELSE \E r2 \in {Read(r1.fp, u1.vals[3])} :
                  \E r3 \in {Read(r2.fp, 2)} :
                  \E u3 \in {Unpack(<<2>>, r3.bytes)} :
                  IF ~u3.ok THEN Raise("struct.error")
                  ELSE Goto([top EXCEPT !.fp = r3.fp,
                                        !.max_stack = u1.vals[1],
                                        !.max_locals = u1.vals[2],
                                        !.code = r2.bytes,
                                        !.n = u3.vals[1],
                                        !.pc = "exception_table"])
       \/ /\ Running("Attribute_Code", "exception_table")
          /\ top.n > 0
          /\ \E t \in {Take(<<2, 2, 2, 2>>)} :
                 IF ~t.u.ok THEN Raise("struct.error")
                 ELSE Goto([top EXCEPT !.fp = t.fp, !.n = @ - 1,
                               !.exception_table = Append(@, t.u.vals)])
       \/ /\ Running("Attribute_Code", "exception_table")
          /\ top.n = 0
          /\ \E t \in {Take(<<2>>)} :
                 IF ~t.u.ok THEN Raise("struct.error")
                 ELSE Goto([top EXCEPT !.fp = t.fp, !.n = t.u.vals[1],
                                       !.pc = "attributes"])
       \/ /\ Running("Attribute_Code", "attributes")
          /\ top.n = 0
          /\ Return([cls |-> top.cls, name |-> top.name,
                     max_stack |-> top.max_stack,
                     max_locals |-> top.max_locals,
                     code |-> top.code,
                     exception_table |-> top.exception_table,
                     attributes |-> top.table])
    /\ UNCHANGED <<constant_pool, fp, calls>>

----------------------------------------------------------------------------
(* The inputs: a constant pool and a byte buffer.  Any bytes are a legal   *)
(* argument; the buffers below are built from fields so that every class   *)
(* is dispatched to, with bodies that are well formed, too short, too      *)
(* long, or followed by the bytes of a sibling attribute.                  *)

Utf8(s) == [kind |-> "Utf8", value |-> s]

\* Attribute names: the seventeen the decoder knows and some it does not.
AllNames ==
    <<"Signature", "StackMapTable", "EnclosingMethod", "InnerClasses",
      "ConstantValue", "Code", "Exceptions", "Synthetic", "SourceFile",
      "SourceDebugExtension", "LineNumberTable", "LocalVariableTable",
      "LocalVariableTypeTable", "Deprecated", "BootstrapMethods",
      "ModulePackages", "ModuleMainClass", "NestHost",
      "RuntimeVisibleAnnotations", "NestMembers", "Record",
      "PermittedSubclasses">>

Pool(n) == [i \in 1..n |-> Utf8(AllNames[i])]

NameIndex(s) == CHOOSE i \in 1..Len(AllNames) : AllNames[i] = s

\* struct.pack(">H", v), struct.pack(">I", v)
EncU16(v) == <<v \div 256, v % 256>>
EncU32(v) == <<v \div 16777216, (v \div 65536) % 256, (v \div 256) % 256, v % 256>>

RECURSIVE Concat(_)
Concat(ss) == IF ss = <<>> THEN <<>> ELSE ss[1] \o Concat(Tail(ss))

SeqsUpTo(S, k) == UNION {[1..m -> S] : m \in 0..k}

\* attribute_info: the header and what follows it.
Encode(name_index, length, body) == EncU16(name_index) \o EncU32(length) \o body

\* Values of a 2-byte field in generated bodies.
Words == {0, 1, 2}

WordBytes(ws) == Concat([i \in 1..Len(ws) |-> EncU16(ws[i])])

\* The arguments of one call.
Input(pool, buf) ==
    /\ constant_pool = pool
    /\ fp = BytesIO(buf)

\* A buffer that ends inside the header.
ShortHeaders ==
    \E k \in 0..5 : Input(Pool(MaxPool), SubSeq(Encode(1, 2, <<>>), 1, k))

\* Every name index against every body index, for every pool length.
IndexSweep ==
    \E n \in 0..MaxPool :
      \E ni \in 0..(n + 1) :
        \E b \in {EncU16(i) : i \in 0..(n + 1)}
                   \cup {EncU16(i) \o EncU16(j) :
                            i \in {1, n}, j \in {0, 1, n, n + 1}} :
          Input(Pool(n), Encode(ni, Len(b), b))

\* Every name index against every short sequence of words; the declared
\* length is that of the words, or up to a word less (the last word is then
\* a sibling's), or one byte more than is present.
WordBodies ==
    \E ws \in SeqsUpTo(Words, MaxWords) :
      \E ni \in 0..(MaxPool + 1),
         l \in {x \in (2 * Len(ws) - 2)..(2 * Len(ws) + 1) : x >= 0} :
        Input(Pool(MaxPool), Encode(ni, l, WordBytes(ws)))

TableNames ==
    {"Exceptions", "InnerClasses", "LineNumberTable", "LocalVariableTable",
     "LocalVariableTypeTable", "BootstrapMethods", "ModulePackages"}

\* A table entry of w words: a first word and w - 1 equal words after it.
TableEntry(w, a, b) == <<a>> \o [i \in 1..(w - 1) |-> b]

\* A declared count, then entries of one width, for every table decoder.
TableBodies ==
    \E es \in SeqsUpTo({<<1, 0>>, <<2, 1>>, <<0, 1>>, <<1, 1>>}, MaxEntries) :
      \E nm \in TableNames, c \in 0..(MaxEntries + 1), w \in {1, 2, 4, 5} :
        LET b == WordBytes(<<c>> \o Concat([i \in 1..Len(es) |->
                                    TableEntry(w, es[i][1], es[i][2])]))
        IN  Input(Pool(MaxPool), Encode(NameIndex(nm), Len(b), b))

\* The body of a Code attribute with the given bytecode length, exception
\* table (declared and present) and nested attributes (declared and present).
CodeBody(code_length, ec, ea, ac, nested) ==
    EncU16(1) \o EncU16(1) \o EncU32(code_length)
        \o [i \in 1..code_length |-> 177]
        \o EncU16(ec) \o [i \in 1..(8 * ea) |-> 0]
        \o EncU16(ac) \o Concat(nested)

CodeAttr(body) == Encode(NameIndex("Code"), Len(body), body)

\* Attributes to nest in a Code body (name indices are into Pool(MaxPool)):
\* an unknown one, a Signature, a Code, a Code in a Code,
\* a Deprecated that declares more bytes than follow.
NestedAttrs ==
    {Encode(NameIndex("StackMapTable"), 1, <<9>>),
     Encode(NameIndex("Signature"), 2, EncU16(1)),
     CodeAttr(CodeBody(0, 0, 0, 0, <<>>)),
     CodeAttr(CodeBody(0, 0, 0, 1, <<CodeAttr(CodeBody(0, 0, 0, 0, <<>>))>>)),
     Encode(NameIndex("Deprecated"), 4, <<>>)}

\* Code attributes: well formed, or declaring more exception handlers or
\* nested attributes than are present, or cut short, or followed by the
\* bytes of a sibling.
CodeBuffers ==
    \E nested \in SeqsUpTo(NestedAttrs, MaxNested) :
      \E e \in {<<0, 0, 0>>, <<2, 1, 1>>, <<2, 257, 1>>},
         ac \in 0..(MaxNested + 1) \cup {257}, drop \in {0, 2, 3} :
        LET b == CodeBody(e[1], e[2], e[3], ac, nested)
            a == CodeAttr(b) \o <<0, 1>>
        IN  Input(Pool(MaxPool), SubSeq(a, 1, Len(a) - drop))

----------------------------------------------------------------------------
(* The state machine.                                                      *)

Init ==
    /\ \/ ShortHeaders
       \/ IndexSweep
       \/ WordBodies
       \/ TableBodies
       \/ CodeBuffers
    /\ stack = <<>>
    /\ result = [status |-> "none", exc |-> "", value |-> None]
    /\ calls = <<>>

Next ==
    \/ Attribute_parse
    \/ Attribute_ConstantValue_parse
    \/ Attribute_Code_parse
    \/ Attribute_Exceptions_parse
    \/ Attribute_InnerClasses_parse
    \/ Attribute_EnclosingMethod_parse
    \/ Attribute_Synthetic_parse
    \/ Attribute_Signature_parse
    \/ Attribute_SourceFile_parse
    \/ Attribute_SourceDebugExtension_parse
    \/ Attribute_LineNumberTable_parse
    \/ Attribute_LocalVariableTable_parse
    \/ Attribute_LocalVariableTypeTable_parse
    \/ Attribute_Deprecated_parse
    \/ Attribute_BootstrapMethods_parse
    \/ Attribute_ModulePackages_parse
    \/ Attribute_ModuleMainClass_parse
    \/ Attribute_NestHost_parse

Spec == Init /\ [][Next]_vars

\* Attribute.parse runs on one thread with nothing to wait for: the
\* interpreter takes the next step of the call for as long as there is one.
FairSpec == Spec /\ WF_vars(Next)

----------------------------------------------------------------------------
(* What the properties below speak of.                                     *)

Done == result.status # "none"
Returned == result.status = "returned"
Raised == result.status = "raised"

\* The outermost call got its header and its name.
TopResolved == calls # <<>> /\ calls[1].resolved

\* ... through a name index in 1..N.
TopNamed == TopResolved /\ calls[1].name_index \in 1..Len(constant_pool)

\* The length of the constant pool.
N == Len(constant_pool)

\* The name the outermost call resolved, as a string.
TopName == calls[1].name.value

\* The body bytes of the outermost attribute that the buffer holds.
TopInfo == SubSeq(fp.data, 7, 6 + Min(calls[1].length, calls[1].avail))

\* The outermost call found its whole declared body in the buffer.
TopComplete == TopResolved /\ calls[1].avail >= calls[1].length

\* The big-endian 2-byte field at byte offset off (from 0) of b.
WordAt(b, off) == b[off + 1] * 256 + b[off + 2]

\* The names with a decoder, as the format documents them.
KnownNames ==
    {"ConstantValue", "Code", "Exceptions", "InnerClasses", "EnclosingMethod",
     "Synthetic", "Signature", "SourceFile", "SourceDebugExtension",
     "LineNumberTable", "LocalVariableTable", "LocalVariableTypeTable",
     "Deprecated", "BootstrapMethods", "ModulePackages", "ModuleMainClass",
     "NestHost"}

\* The variants that hold one resolved index, and that index's field.
SingleNames ==
    {"ConstantValue", "Signature", "SourceFile", "ModuleMainClass", "NestHost"}

SingleField(v) ==
    CASE v.cls = "Attribute_ConstantValue" -> v.constant_value
      [] v.cls = "Attribute_Signature" -> v.signature
      [] v.cls = "Attribute_SourceFile" -> v.sourcefile
      [] v.cls = "Attribute_ModuleMainClass" -> v.main_class
      [] v.cls = "Attribute_NestHost" -> v.host_class

----------------------------------------------------------------------------
(* C4.  Sibling isolation.  For every Attribute.parse call that resolved   *)
(* its name on a cursor holding the declared body: the call left the       *)
(* cursor exactly 6 + attribute_length bytes past where it found it; the   *)
(* cursor is still there in every later state, while the variant decoder   *)
(* runs and after it returned or raised; and the decoder's own cursor is   *)
(* over exactly the attribute_length body bytes, within which it stays.    *)
C4_SiblingIsolation ==
    /\ \A k \in 1..Len(calls) :
          calls[k].resolved /\ calls[k].avail >= calls[k].length
             => calls[k].after = calls[k].before + 6 + calls[k].length
    /\ TopComplete => fp.pos = 6 + calls[1].length
    /\ \A j \in 1..Len(stack) :
          LET f == stack[j]
              c == calls[f.call]
              outer == IF j = 1 THEN fp ELSE stack[j - 1].fp
          IN  /\ c.resolved
              /\ c.depth = j - 1
              /\ f.fp.pos <= Len(f.fp.data)
              /\ c.avail >= c.length =>
                    /\ outer.pos = c.before + 6 + c.length
                    /\ f.fp.data = SubSeq(outer.data, c.before + 7,
                                          c.before + 6 + c.length)

\* A decoder raised after consuming part of a body that a sibling's bytes follow.
C4_Witness ==
    /\ Raised
    /\ TopComplete
    /\ calls[1].avail > calls[1].length
    /\ calls[1].length > 0
    /\ TopName \in KnownNames
    /\ fp.pos = 6 + calls[1].length

----------------------------------------------------------------------------
(* C8.  Symbol references are 1-based.  A ConstantValue, Signature,        *)
(* SourceFile, ModuleMainClass or NestHost attribute whose body starts     *)
(* with the 2-byte index i, 1 <= i <= N, decodes to the variant of that    *)
(* name whose field is the i-th constant pool entry counted from 1.        *)
C8_OneBased ==
    (/\ Done
     /\ TopResolved
     /\ TopName \in SingleNames
     /\ Len(TopInfo) >= 2
     /\ WordAt(TopInfo, 0) \in 1..N)
    => /\ Returned
       /\ result.value.cls = "Attribute_" \o TopName
       /\ result.value.name = calls[1].name
       /\ SingleField(result.value) = constant_pool[WordAt(TopInfo, 0)]

\* A Signature with index 5 decoded against a table longer than 5.
C8_Witness ==
    /\ Returned
    /\ TopResolved
    /\ TopName = "Signature"
    /\ N > 5
    /\ WordAt(TopInfo, 0) = 5
    /\ result.value.signature = constant_pool[5]

----------------------------------------------------------------------------
(* C1.  A truncated attribute is rejected.  Whenever the outermost call    *)
(* resolved its name and the buffer holds fewer bytes after the header     *)
(* than the header declares, the call ends with the decoder's truncation   *)
(* failure (struct.error) and returns no variant, whatever the name.       *)
C1_TruncatedRejected ==
    (/\ Done
     /\ TopNamed
     /\ calls[1].avail < calls[1].length)
    => /\ Raised
       /\ result.exc = "struct.error"

----------------------------------------------------------------------------
(* C2.  A symbol index that must be present is rejected outside 1..N.  If  *)
(* the name index of the outermost attribute, or the body index of a       *)
(* ConstantValue, Signature, SourceFile, ModuleMainClass or NestHost       *)
(* attribute, is 0 or greater than N, the call ends with IndexError and    *)
(* returns no variant.                                                     *)
C2_IndexRejected ==
    /\ (/\ Done
        /\ calls # <<>>
        /\ calls[1].header
        /\ calls[1].name_index \notin 1..N)
       => /\ Raised
          /\ result.exc = "IndexError"
    /\ (/\ Done
        /\ TopNamed
        /\ TopName \in SingleNames
        /\ Len(TopInfo) >= 2
        /\ WordAt(TopInfo, 0) \notin 1..N)
       => /\ Raised
          /\ result.exc = "IndexError"

----------------------------------------------------------------------------
(* C3.  An optional symbol index of 0 decodes to the absent marker.  An    *)
(* EnclosingMethod attribute with a class index in 1..N and method index   *)
(* 0 decodes, and its method is the absent marker; an InnerClasses         *)
(* attribute whose entries are all present, with inner class indices in    *)
(* 1..N and outer class and inner name indices in 0..N, decodes, and the   *)
(* outer class or inner name of an entry whose index is 0 is the absent    *)
(* marker.                                                                 *)
C3_AbsentMarker ==
    /\ (/\ Done
        /\ TopNamed
        /\ TopName = "EnclosingMethod"
        /\ Len(TopInfo) >= 4
        /\ WordAt(TopInfo, 0) \in 1..N
        /\ WordAt(TopInfo, 2) = 0)
       => /\ Returned
          /\ result.value.method = None
    /\ (/\ Done
        /\ TopNamed
        /\ TopName = "InnerClasses"
        /\ Len(TopInfo) >= 2
        /\ Len(TopInfo) >= 2 + 8 * WordAt(TopInfo, 0)
        /\ \A i \in 1..WordAt(TopInfo, 0) :
              /\ WordAt(TopInfo, 8 * i - 6) \in 1..N
              /\ WordAt(TopInfo, 8 * i - 4) \in 0..N
              /\ WordAt(TopInfo, 8 * i - 2) \in 0..N)
       => /\ Returned
          /\ \A i \in 1..WordAt(TopInfo, 0) :
                /\ WordAt(TopInfo, 8 * i - 4) = 0
                      => result.value.inner_classes[i].outer_class_info = None
                /\ WordAt(TopInfo, 8 * i - 2) = 0
                      => result.value.inner_classes[i].inner_name = None

----------------------------------------------------------------------------
(* C5.  Name-driven dispatch with an identity fallback.  The outermost     *)
(* call returns the Unknown variant exactly when the resolved name is not  *)
(* a known one; it then raises nothing, and the result carries the         *)
(* resolved name and the attribute_length body bytes as they are in the    *)
(* buffer; for a known name the variant returned bears that name.          *)
C5_DispatchIdentity ==
    /\ (Done /\ TopNamed /\ TopName \notin KnownNames) => Returned
    /\ (Returned /\ TopNamed) =>
          /\ result.value.cls = "UnknownAttribute" <=> TopName \notin KnownNames
          /\ result.value.name = calls[1].name
          /\ TopName \in KnownNames
                => result.value.cls = "Attribute_" \o TopName
          /\ TopName \notin KnownNames
                => /\ Len(result.value.info) = calls[1].length
                   /\ result.value.info
                         = SubSeq(fp.data, 7, 6 + calls[1].length)

----------------------------------------------------------------------------
\* The index a field came from: 0 for the absent marker.
IndexOf(entry) ==
    IF entry = None THEN 0
    ELSE CHOOSE j \in 1..N : constant_pool[j] = entry

(* C9.  Lossless index round trip.  For a ConstantValue, Signature,        *)
(* SourceFile, ModuleMainClass, NestHost or EnclosingMethod attribute      *)
(* decoded from well-formed input (indices in 1..N; the method index of    *)
(* EnclosingMethod in 0..N), the index of each field of the variant, 0     *)
(* for the absent marker and otherwise the field's place in the constant   *)
(* pool, is the index that was read.                                       *)
C9_IndexRoundTrip ==
    /\ (/\ Returned
        /\ TopNamed
        /\ TopName \in SingleNames
        /\ WordAt(TopInfo, 0) \in 1..N)
       => IndexOf(SingleField(result.value)) = WordAt(TopInfo, 0)
    /\ (/\ Returned
        /\ TopNamed
        /\ TopName = "EnclosingMethod"
        /\ WordAt(TopInfo, 0) \in 1..N
        /\ WordAt(TopInfo, 2) \in 0..N)
       => /\ IndexOf(result.value.class_) = WordAt(TopInfo, 0)
          /\ IndexOf(result.value.method) = WordAt(TopInfo, 2)

----------------------------------------------------------------------------
(* Nested attributes of Code.  The layout of a Code body b, read off       *)
(* its bytes: the bytecode length, where the exception table count and     *)
(* the attribute count are, and where the nested attributes start.         *)
CodeLength(b) == WordAt(b, 4) * 65536 + WordAt(b, 6)
ExcCountOff(b) == 8 + CodeLength(b)
ExcCount(b) == WordAt(b, ExcCountOff(b))
AttrCountOff(b) == ExcCountOff(b) + 2 + 8 * ExcCount(b)
AttrCount(b) == WordAt(b, AttrCountOff(b))
AttrStart(b) == AttrCountOff(b) + 2

\* The calls at the given depth made after call number `from`, by index.
CallsAt(depth, from) ==
    {i \in (from + 1)..Len(calls) : calls[i].depth = depth}

SetMax(S) == CHOOSE x \in S : \A y \in S : y <= x

\* The calls in I came one after the other over the body b, the first at
\* the start of the nested attributes; each read its header and at most
\* its declared length, and none read past the end of b.
InOrderWithin(I, b) ==
    \A i \in I :
        /\ calls[i].before >= AttrStart(b)
        /\ calls[i].after <= Len(b)
        /\ calls[i].after <= calls[i].before + 6 + calls[i].length
        /\ LET earlier == {x \in I : x < i}
           IN  calls[i].before = IF earlier = {} THEN AttrStart(b)
                                 ELSE calls[SetMax(earlier)].after

(* C6.  Decoding a Code attribute whose attribute count field is k: while  *)
(* its _parse is in the nested attribute loop, the nested calls made and   *)
(* the passes left add up to k; the nested calls are made one after the    *)
(* other from the byte after the attribute count, which lies after the     *)
(* bytecode and the exception table, each reading only its header and at   *)
(* most its declared length, none past the end of the Code body; never     *)
(* more than k calls are made; and a Code variant that is returned holds   *)
(* exactly k nested attributes, the i-th being the result of the i-th      *)
(* call.                                                                   *)
C6_NestedAttributes ==
    /\ \A j \in 1..Len(stack) :
          LET f == stack[j]
              b == f.fp.data
              I == CallsAt(j, f.call)
          IN  (f.cls = "Attribute_Code" /\ f.pc = "attributes") =>
                 /\ Len(f.table) + f.n = AttrCount(b)
                 /\ Cardinality(I)
                       = Len(f.table) + (IF j < Len(stack) THEN 1 ELSE 0)
                 /\ f.fp.pos >= AttrStart(b)
                 /\ f.fp.pos <= Len(b)
                 /\ InOrderWithin(I, b)
                 /\ \A i \in 1..Len(f.table) :
                       \E c \in I : /\ Cardinality({x \in I : x <= c}) = i
                                    /\ f.table[i].name = calls[c].name
    /\ (Done /\ TopResolved /\ TopName = "Code" /\ CallsAt(1, 1) # {}) =>
          /\ Cardinality(CallsAt(1, 1)) <= AttrCount(TopInfo)
          /\ InOrderWithin(CallsAt(1, 1), TopInfo)
    /\ (Returned /\ TopResolved /\ TopName = "Code") =>
          /\ Len(result.value.attributes) = AttrCount(TopInfo)
          /\ Cardinality(CallsAt(1, 1)) = AttrCount(TopInfo)
          /\ result.value.code = SubSeq(TopInfo, 9, 8 + CodeLength(TopInfo))
          /\ \A i \in 1..Len(result.value.attributes) :
                \E c \in CallsAt(1, 1) :
                    /\ Cardinality({x \in CallsAt(1, 1) : x <= c}) = i
                    /\ result.value.attributes[i].name = calls[c].name

\* A Code attribute with bytecode and an exception handler returned with two
\* nested attributes of different names, the second a Code of its own.
C6_Witness ==
    /\ Returned
    /\ TopResolved
    /\ TopName = "Code"
    /\ CodeLength(TopInfo) > 0
    /\ ExcCount(TopInfo) = 1
    /\ AttrCount(TopInfo) = 2
    /\ Len(result.value.attributes) = 2
    /\ result.value.attributes[1].cls = "UnknownAttribute"
    /\ result.value.attributes[2].cls = "Attribute_Code"
    /\ Len(result.value.attributes[2].attributes) = 1

----------------------------------------------------------------------------
(* Count-prefixed tables.                                                  *)

\* The tables with entries of one size, the size in bytes, and the
\* sequence a variant holds.
FixedTables ==
    {"Exceptions", "InnerClasses", "LineNumberTable", "LocalVariableTable",
     "LocalVariableTypeTable", "ModulePackages"}

EntrySize(name) ==
    CASE name \in {"Exceptions", "ModulePackages"} -> 2
      [] name = "LineNumberTable" -> 4
      [] name = "InnerClasses" -> 8
      [] name \in {"LocalVariableTable", "LocalVariableTypeTable"} -> 10

TableOf(v) ==
    CASE v.cls = "Attribute_Exceptions" -> v.exception_index_table
      [] v.cls = "Attribute_InnerClasses" -> v.inner_classes
      [] v.cls = "Attribute_LineNumberTable" -> v.line_number_table
      [] v.cls = "Attribute_LocalVariableTable" -> v.local_variable_table
      [] v.cls = "Attribute_LocalVariableTypeTable" -> v.local_variable_type_table
      [] v.cls = "Attribute_ModulePackages" -> v.package_index_table
      [] v.cls = "Attribute_BootstrapMethods" -> v.bootstrap_methods

\* Entry e is the constant pool entry of index idx, for an index in 1..N.
IsEntry(idx, e) == idx \in 1..N => e = constant_pool[idx]

\* Element e of a table variant is what the entry at byte offset off of
\* the body b holds.
FromEntry(name, e, b, off) ==
    CASE name = "Exceptions" -> e = WordAt(b, off)
      [] name = "ModulePackages" -> IsEntry(WordAt(b, off), e)
      [] name = "LineNumberTable" ->
            /\ e.start_pc = WordAt(b, off)
            /\ e.line_number = WordAt(b, off + 2)
      [] name = "InnerClasses" ->
            /\ IsEntry(WordAt(b, off), e.inner_class_info)
            /\ IsEntry(WordAt(b, off + 2), e.outer_class_info)
            /\ IsEntry(WordAt(b, off + 4), e.inner_name)
      [] name = "LocalVariableTable" ->
            e = [start_pc |-> WordAt(b, off), line_number |-> WordAt(b, off + 2),
                 name_index |-> WordAt(b, off + 4),
                 descriptor_index |-> WordAt(b, off + 6),
                 index |-> WordAt(b, off + 8)]
      [] name = "LocalVariableTypeTable" ->
            e = [start_pc |-> WordAt(b, off), line_number |-> WordAt(b, off + 2),
                 name_index |-> WordAt(b, off + 4),
                 signature_index |-> WordAt(b, off + 6),
                 index |-> WordAt(b, off + 8)]

\* Where the i-th bootstrap method of the body b starts.
RECURSIVE BootstrapOff(_, _)
BootstrapOff(b, i) ==
    IF i = 1 THEN 2
    ELSE BootstrapOff(b, i - 1) + 4 + 2 * WordAt(b, BootstrapOff(b, i - 1) + 2)

(* C7.  Every table variant that is returned holds as many elements as the *)
(* 2-byte count at the start of its body declares, the i-th decoded from   *)
(* the i-th entry of the body; so do the argument lists of a bootstrap     *)
(* method and the exception table of Code.  A body with fewer entries than *)
(* its count declares is not decoded: the call raises.                     *)
C7_Tables ==
    /\ (/\ Done
        /\ TopResolved
        /\ TopName \in FixedTables
        /\ Len(TopInfo) >= 2)
       => LET count == WordAt(TopInfo, 0)
              size == EntrySize(TopName)
          IN  /\ Len(TopInfo) < 2 + count * size => Raised
              /\ Returned =>
                    /\ Len(TableOf(result.value)) = count
                    /\ \A i \in 1..count :
                          FromEntry(TopName, TableOf(result.value)[i],
                                    TopInfo, 2 + (i - 1) * size)
    /\ (/\ Done
        /\ TopResolved
        /\ TopName = "BootstrapMethods"
        /\ Len(TopInfo) >= 2)
       => LET count == WordAt(TopInfo, 0)
              methods == result.value.bootstrap_methods
          IN  /\ Len(TopInfo) < 2 + count * 4 => Raised
              /\ Returned =>
                    /\ Len(methods) = count
                    /\ \A i \in 1..count :
                          LET off == BootstrapOff(TopInfo, i)
                          IN  /\ IsEntry(WordAt(TopInfo, off), methods[i][1])
                              /\ Len(methods[i][2]) = WordAt(TopInfo, off + 2)
                              /\ \A a \in 1..Len(methods[i][2]) :
                                    IsEntry(WordAt(TopInfo, off + 2 + 2 * a),
                                            methods[i][2][a])
    /\ (/\ Returned
        /\ TopResolved
        /\ TopName = "Code")
       => /\ Len(result.value.exception_table) = ExcCount(TopInfo)
          /\ \A i \in 1..ExcCount(TopInfo) :
                \A k \in 1..4 :
                    result.value.exception_table[i][k]
                       = WordAt(TopInfo, ExcCountOff(TopInfo) + 8 * i - 8 + 2 * k)

\* An Exceptions attribute with two different entries returned in body order.
C7_Witness ==
    /\ Returned
    /\ TopResolved
    /\ TopName = "Exceptions"
    /\ WordAt(TopInfo, 0) = 2
    /\ result.value.exception_index_table
          = <<WordAt(TopInfo, 2), WordAt(TopInfo, 4)>>
    /\ WordAt(TopInfo, 2) # WordAt(TopInfo, 4)

----------------------------------------------------------------------------
(* Termination.                                                            *)

\* The bytes a cursor has left.
Left(c) == Len(c.data) - c.pos

RECURSIVE FramesLeft(_)
FramesLeft(st) ==
    IF st = <<>> THEN 0
    ELSE Left(st[1].fp) + (IF st[1].pc = "argument" THEN 1 ELSE 0)
            + FramesLeft(Tail(st))

\* What is left to do: the unread bytes of every live cursor, twice, the
\* live calls, the passes of a bootstrap method that have read their
\* header, and the outcome.
Measure ==
    2 * (Left(fp) + FramesLeft(stack)) + Len(stack) + (IF Done THEN 0 ELSE 1)

\* The places a _parse of each class can be at.
PcsOf(cls) ==
    CASE cls = "Attribute_Code" -> {"start", "exception_table", "attributes"}
      [] cls = "Attribute_BootstrapMethods" -> {"start", "method", "argument"}
      [] cls \in {"Attribute_" \o nm : nm \in FixedTables} -> {"start", "loop"}
      [] OTHER -> {"start"}

\* Some step of the decoder can be taken: a call of Attribute.parse is due,
\* or the innermost _parse is at one of its places with a loop count that
\* range() accepts.
CanStep ==
    \/ CanCall
    \/ /\ stack # <<>>
       /\ \E i \in 1..Len(Subclasses) : Subclasses[i] = top.cls
       /\ top.cls # "UnknownAttribute"
       /\ top.pc \in PcsOf(top.cls)
       /\ top.n >= 0
       /\ top.m >= 0

\* A step is a pass of a loop when the innermost call stays and has one
\* pass less to go.
LoopPass ==
    /\ stack # <<>>
    /\ Len(stack') = Len(stack)
    /\ \/ stack'[Len(stack)].n = top.n - 1 /\ top.pc = stack'[Len(stack)].pc
       \/ stack'[Len(stack)].m = top.m - 1 /\ top.pc = stack'[Len(stack)].pc

\* A step is a call when it adds a frame.
CallStep == Len(stack') = Len(stack) + 1

(* C10.  Every call ends, with a variant or with a failure.  Each step of  *)
(* the decoder lowers a measure that is never negative and is at most      *)
(* twice the buffer's length plus one at the start; a decoder that has not *)
(* ended can take a step; a pass of a loop consumes at least one byte of   *)
(* the body it reads from, and a nested call at least its six header       *)
(* bytes, or the call raises; the body handed to a call is at least six    *)
(* bytes shorter than what its caller had, so the depth of the calls and   *)
(* their number stay within a sixth of the outermost buffer.               *)
C10_Terminates ==
    /\ <>Done
    /\ [][Measure' < Measure]_vars
    /\ [][LoopPass => Left(stack'[Len(stack)].fp) < Left(top.fp)]_vars
    /\ [][CallStep =>
            LET outer == IF stack = <<>> THEN fp ELSE top.fp
            IN  Len(stack'[Len(stack')].fp.data) + 6 <= Left(outer)]_vars
    /\ [](Measure >= 0 /\ Measure <= 2 * Len(fp.data) + 1)
    /\ [](~Done => CanStep)
    /\ [](6 * Len(stack) <= Len(fp.data))
    /\ [](6 * (Len(calls) - 1) <= Len(fp.data))

\* A Code attribute declaring 257 exception handlers and 257 nested
\* attributes, with a Code nested in a Code nested in it, has ended.
C10_Witness ==
    /\ Done
    /\ TopResolved
    /\ TopName = "Code"
    /\ Len(calls) >= 3
    /\ calls[3].depth = 2
    /\ calls[3].name.value = "Code"
    /\ \E i \in 1..Len(calls) : calls[i].depth = 1 /\ ~calls[i].header

============================================================================
